---- MODULE Spec2Model ----
(***************************************************************************)
(* Digital Product Passport backend (dpp-backend): the passport            *)
(* coordinator DPPService with its two remote collaborators, the IPFS      *)
(* content store (IPFSService) and the ledger contract                     *)
(* (BlockchainService), and the relational table of passports; with them   *)
(* the POST /dpps route, which writes to the same table, and the rate       *)
(* limiter of SecurityMiddleware, which every request passes first.         *)
(*                                                                         *)
(* Each request is served by one worker.  A worker's handler is cut into   *)
(* one action per remote call or database access, so that concurrent       *)
(* requests interleave exactly where the code can be interleaved.          *)
(***************************************************************************)
EXTENDS Integers, Sequences, FiniteSets, TLC

\* ------------------------------------------------------------------ bounds
NumWorkers == 2
NumProducts == 1
MaxRequests == 2
MaxTime == 1
MaxTx == 2
MaxTampered == 1

Workers == 1..NumWorkers
\* rows of the products table; product id 0 is in no row
Products == 1..NumProducts
ProductIds == 0..NumProducts
Uuids == 1..MaxRequests

\* ------------------------------------------------- documents (JSON objects)
\* A JSON object is a function from keys to values; every value is a number.
\* "ipfs_version": "1.0", as a number
IpfsVersion == 10

EmptyDoc == <<>>

\* {**a, **b}: the keys of b override those of a
Merge(a, b) == b @@ a

\* d.pop(k, None) on a copy
Pop(d, k) == [x \in (DOMAIN d) \ {k} |-> d[x]]

\* DPPService.generate_json_ld_metadata
generate_json_ld_metadata(product, dpp_id, t) ==
    ("@id" :> dpp_id) @@ ("dpp:productName" :> product) @@ ("dpp:issuedAt" :> t)

\* the bodies a client may send to update_dpp_metadata
Patches ==
    { EmptyDoc,
      ("dpp:productName" :> 55),
      ("ipfs_version" :> 20) }

\* ---------------------------------------------------------------- hashing
\* BlockchainService.generate_data_hash: keccak of the sorted-key dump of the
\* document; the digest is modelled as an injective image of the dump.
generate_data_hash(data) == <<"keccak", data>>

\* a fixed placeholder in place of the data hash
FallbackHash_Placeholder(data_hash) == <<"0x", generate_data_hash(EmptyDoc)>>

\* f"0x{data_hash}"
FallbackHash(data_hash) == <<"0x", data_hash>>

\* tx_hash.hex() of the n-th transaction sent to the ledger
TxHash(n) == <<"tx", n>>

\* ---------------------------------------------------------- content store
\* metadata stamped by upload_dpp_metadata before it is added
Stamp(dpp_data, t) ==
    Merge(dpp_data, ("ipfs_upload_timestamp" :> t) @@ ("ipfs_version" :> IpfsVersion))

\* client.add_json: the identifier is derived from the content added
CidOf(metadata) == <<"Qm", metadata>>

\* the stamps written into the caller's dictionary
DocAfterUpload_InPlace(dpp_data, metadata) == metadata

\* the caller's dictionary once upload_dpp_metadata has returned: the stamps
\* go into a new dictionary, {**dpp_data, ...}
DocAfterUpload(dpp_data, metadata) == dpp_data

\* the comparison without the removal of the stamped fields
ContentMatches_NoPop(retrieved_data, expected_data) ==
    retrieved_data = expected_data

\* the comparison left out: any retrieved content is accepted
ContentMatches_Always(retrieved_data, expected_data) ==
    TRUE

\* the comparison of IPFSService.verify_content_integrity
ContentMatches(retrieved_data, expected_data) ==
    Pop(Pop(retrieved_data, "ipfs_upload_timestamp"), "ipfs_version")
        = Pop(Pop(expected_data, "ipfs_upload_timestamp"), "ipfs_version")

VARIABLES
    requests,      \* number of requests accepted so far
    counted,       \* requests check_rate_limit counted at the latest request
    now,           \* datetime.utcnow()
    nextUuid,      \* the next value uuid.uuid4() returns
    dpps,          \* committed rows of digital_product_passports
    store,         \* content store: cid -> blob
    pins,          \* cids pinned in the content store
    ledger,        \* transactions sent to the registry contract, in order
    pc,            \* position of each worker in its handler
    loc            \* local variables of each worker's handler

vars == <<requests, counted, now, nextUuid, dpps, store, pins, ledger, pc, loc>>

\* verifyByCid for a cid the contract does not know
NotFound == [is_valid |-> FALSE, data_hash |-> generate_data_hash(EmptyDoc)]

NoDpp == [id |-> 0, product_id |-> 0, ipfs_cid |-> CidOf(EmptyDoc),
          blockchain_hash |-> TxHash(0), json_ld_data |-> EmptyDoc]

IdleLoc ==
    [ product_id |-> 0, dpp_id |-> 0, json_ld_data |-> EmptyDoc,
      ipfs_success |-> FALSE, ipfs_cid |-> CidOf(EmptyDoc),
      data_hash |-> generate_data_hash(EmptyDoc),
      blockchain_success |-> FALSE, blockchain_error |-> "none",
      tx_status |-> "none",
      blockchain_hash |-> TxHash(0),
      dpp |-> NoDpp,
      retrieved_data |-> EmptyDoc, integrity_success |-> FALSE,
      ipfs_check |-> FALSE, data_integrity |-> FALSE,
      blockchain_check |-> FALSE, overall_valid |-> FALSE,
      query_success |-> FALSE, query_data |-> NotFound,
      success |-> FALSE, error |-> "none" ]

Init ==
    /\ requests = 0
    /\ counted = 0
    /\ now = 0
    /\ nextUuid = 1
    /\ dpps = {}
    /\ store = <<>>
    /\ pins = {}
    /\ ledger = <<>>
    /\ pc = [w \in Workers |-> "idle"]
    /\ loc = [w \in Workers |-> IdleLoc]

\* ------------------------------------------------------- database helpers
\* the query for an existing passport finding nothing
ExistingDpp_None(product_id) == {}

\* DigitalProductPassport.query.filter_by(product_id=...).first()
ExistingDpp(product_id) == {r \in dpps : r.product_id = product_id}

\* DigitalProductPassport.query.get(dpp_id)
DppById(dpp_id) == {r \in dpps : r.id = dpp_id}

\* the unique columns without the one on product_id
UniqueViolation_NoProduct(row, others) ==
    \E r \in others :
        \/ r.id = row.id
        \/ r.ipfs_cid = row.ipfs_cid
        \/ r.blockchain_hash = row.blockchain_hash

\* the unique columns of digital_product_passports (dpp_url is built from id)
UniqueViolation(row, others) ==
    \E r \in others :
        \/ r.id = row.id
        \/ r.product_id = row.product_id
        \/ r.ipfs_cid = row.ipfs_cid
        \/ r.blockchain_hash = row.blockchain_hash

\* the pending row left in the table when the commit raised
rollback_Missing(rows, row) == rows \cup {row}

\* db.session.rollback() of the except branch: the rows of the table once the
\* pending row has been discarded
rollback(rows, row) == rows

\* db.session.commit(): the exception it raises, which the handlers put in
\* their error message (f"Error creating DPP: {str(e)}"), or "none".
\* dbok is whether the database answers.
CommitError(dbok, row, others) ==
    IF ~dbok THEN "OperationalError"
    ELSE IF UniqueViolation(row, others) THEN "IntegrityError"
    ELSE "none"

\* ----------------------------------------------------- content store calls
\* How a call of the content store client ends: "uninitialized" is
\* self.client being None, "error" an exception raised by the client.
StoreOutcomes == {"ok", "uninitialized", "error"}

\* IPFSService.upload_dpp_metadata: the success flag returned
upload_dpp_metadata_success(up) == up = "ok"

\* IPFSService.retrieve_dpp_metadata: the success flag returned; get_json
\* raises for a cid the store does not hold
retrieve_dpp_metadata_success(cid, up) == up = "ok" /\ cid \in DOMAIN store

\* client.add_json: a block the store already holds is not written again
add_json(metadata) == store @@ (CidOf(metadata) :> metadata)

\* IPFSService.pin_content: the success flag returned
pin_content_success(up) == up = "ok"

\* IPFSService.verify_content_integrity: <<success, is_valid, retrieved_data>>
verify_content_integrity(cid, expected_data, up) ==
    IF retrieve_dpp_metadata_success(cid, up)
    THEN <<TRUE, ContentMatches(store[cid], expected_data), store[cid]>>
    ELSE <<FALSE, FALSE, EmptyDoc>>

\* ------------------------------------------------------------ ledger calls
\* How a call of register_dpp_on_blockchain ends: "uninitialized" is the
\* contract or the signing account being None, "unreachable" is_connected()
\* being false or an exception before the transaction is sent, "confirmed"
\* and "reverted" a receipt of status 1 and 0, "timeout" the wait for the
\* receipt running out.
LedgerOutcomes == {"uninitialized", "unreachable", "confirmed", "reverted", "timeout"}

\* How a read of the contract ends.
QueryOutcomes == {"ok", "uninitialized", "unreachable"}

\* what the contract keeps of one transaction
LedgerStatus(outcome) ==
    CASE outcome = "confirmed" -> "confirmed"
      [] outcome = "reverted" -> "reverted"
      [] OTHER -> "pending"

\* BlockchainService.register_dpp_on_blockchain: can the call raise before
\* the transaction is sent
RegisterSends(outcome) == outcome \in {"confirmed", "reverted", "timeout"}

\* BlockchainService.register_dpp_on_blockchain: the success flag returned.
\* A receipt is success whatever its status; the wait for the receipt raises
\* on timeout.
register_dpp_on_blockchain_success(outcome) ==
    RegisterSends(outcome) /\ outcome \in {"confirmed", "reverted"}

\* BlockchainService.verify_dpp_by_cid: the success flag returned
verify_dpp_by_cid_success(up) == up = "ok"

\* the results verifyByCid(ipfs_cid).call() may return
verifyByCid(ipfs_cid) ==
    LET hits == {i \in 1..Len(ledger) :
                    ledger[i].ipfs_cid = ipfs_cid /\ ledger[i].status = "confirmed"}
    IN IF hits = {}
       THEN {NotFound}
       ELSE {[is_valid |-> TRUE, data_hash |-> ledger[i].data_hash] : i \in hits}

\* ------------------------------------------------- middleware/security.py
\* the requests allowed per client address within one window, and the
\* length of the window in seconds
RateLimit == 100
RateWindow == 60

\* request.remote_addr: the requests come from one client
ClientIp == "10.0.0.1"

\* flask.g when a request arrives: the application context is created for
\* the request, so it has no attribute rate_limit_store yet and
\* check_rate_limit sets it to {}
NewRequestStore == <<>>

\* g.rate_limit_store[client_ip] with the entries older than the window
\* dropped
CleanOld(times, current_time) ==
    SelectSeq(times, LAMBDA req_time : current_time - req_time < RateWindow)

\* SecurityMiddleware.check_rate_limit: <<allowed, g.rate_limit_store after
\* the call>>
check_rate_limit(rate_limit_store, client_ip, current_time) ==
    LET times == IF client_ip \in DOMAIN rate_limit_store
                 THEN rate_limit_store[client_ip] ELSE <<>>
        cleaned == CleanOld(times, current_time)
    IN IF Len(cleaned) >= RateLimit
       THEN <<FALSE, (client_ip :> cleaned) @@ rate_limit_store>>
       ELSE <<TRUE, (client_ip :> Append(cleaned, current_time)) @@ rate_limit_store>>

\* A request passes before_request and is handed to worker w; a request
\* that check_rate_limit refuses is answered 429 and changes nothing.  Idle
\* workers are interchangeable, so a new request goes to the lowest idle
\* one.
Accept(w) ==
    /\ requests < MaxRequests
    /\ pc[w] = "idle" => \A v \in Workers : v < w => pc[v] # "idle"
    /\ LET checked == check_rate_limit(NewRequestStore, ClientIp, now)
       IN /\ checked[1]
          /\ counted' = Len(checked[2][ClientIp])
    /\ requests' = requests + 1

\* ------------------------------------------- DPPService.create_complete_dpp
\* product lookup, existing passport check, document generation
create_complete_dpp_check(w, product_id) ==
    /\ pc[w] = "idle"
    /\ Accept(w)
    /\ IF product_id \notin Products
       THEN /\ pc' = [pc EXCEPT ![w] = "c_done"]
            /\ loc' = [loc EXCEPT ![w] = [IdleLoc EXCEPT !.product_id = product_id,
                                                         !.error = "Product not found"]]
            /\ UNCHANGED nextUuid
       ELSE IF ExistingDpp(product_id) # {}
       THEN /\ pc' = [pc EXCEPT ![w] = "c_done"]
            /\ loc' = [loc EXCEPT ![w] = [IdleLoc EXCEPT !.product_id = product_id,
                                                         !.error = "DPP already exists for this product"]]
            /\ UNCHANGED nextUuid
       ELSE /\ nextUuid' = nextUuid + 1
            /\ pc' = [pc EXCEPT ![w] = "c_upload"]
            /\ loc' = [loc EXCEPT ![w] =
                        [IdleLoc EXCEPT !.product_id = product_id,
                                        !.dpp_id = nextUuid,
                                        !.json_ld_data =
                                            generate_json_ld_metadata(product_id, nextUuid, now)]]
    /\ UNCHANGED <<now, dpps, store, pins, ledger>>

\* where create_complete_dpp goes on when the upload is carried on after a failure
AfterUploadFailure_Continue == "c_register"

\* where create_complete_dpp goes when the upload failed: it returns
AfterUploadFailure == "c_done"

\* the record written right after the upload, the registration left out
AfterUpload_CommitFirst == "c_commit"

\* where create_complete_dpp goes when the upload returned a cid: the data
\* hash, then the registration
AfterUpload == "c_register"

\* upload to the content store, then the data hash
create_complete_dpp_upload(w) ==
    /\ pc[w] = "c_upload"
    /\ \E up \in StoreOutcomes :
        IF ~upload_dpp_metadata_success(up)
        THEN /\ pc' = [pc EXCEPT ![w] = AfterUploadFailure]
             /\ loc' = [loc EXCEPT ![w].error = "IPFS upload failed"]
             /\ UNCHANGED store
        ELSE LET metadata == Stamp(loc[w].json_ld_data, now)
             IN /\ store' = add_json(metadata)
                /\ pc' = [pc EXCEPT ![w] = AfterUpload]
                /\ loc' = [loc EXCEPT
                            ![w].ipfs_success = TRUE,
                            ![w].ipfs_cid = CidOf(metadata),
                            ![w].json_ld_data = DocAfterUpload(loc[w].json_ld_data, metadata),
                            ![w].data_hash =
                                generate_data_hash(DocAfterUpload(loc[w].json_ld_data, metadata))]
    /\ UNCHANGED <<requests, counted, now, nextUuid, dpps, pins, ledger>>

\* a failed registration ends create_complete_dpp
AfterRegister_Abort(blockchain_success) ==
    IF blockchain_success THEN "c_commit" ELSE "c_done"

\* where create_complete_dpp goes after the registration: on to the record,
\* whether or not the registration succeeded
AfterRegister(blockchain_success) == "c_commit"

\* registration on the ledger and the choice of blockchain_hash
create_complete_dpp_register(w) ==
    /\ pc[w] = "c_register"
    /\ \E outcome \in LedgerOutcomes :
        /\ RegisterSends(outcome) => Len(ledger) < MaxTx
        /\ ledger' = IF RegisterSends(outcome)
                     THEN Append(ledger, [ipfs_cid |-> loc[w].ipfs_cid,
                                          data_hash |-> loc[w].data_hash,
                                          product_id |-> loc[w].product_id,
                                          status |-> LedgerStatus(outcome),
                                          issuer |-> "self"])
                     ELSE ledger
        /\ loc' = [loc EXCEPT
                    ![w].blockchain_success = register_dpp_on_blockchain_success(outcome),
                    ![w].blockchain_error =
                        IF register_dpp_on_blockchain_success(outcome)
                        THEN "none" ELSE outcome,
                    ![w].tx_status =
                        IF register_dpp_on_blockchain_success(outcome)
                        THEN LedgerStatus(outcome) ELSE "none",
                    ![w].blockchain_hash =
                        IF register_dpp_on_blockchain_success(outcome)
                        THEN TxHash(Len(ledger) + 1)
                        ELSE FallbackHash(loc[w].data_hash)]
        /\ pc' = [pc EXCEPT ![w] = AfterRegister(register_dpp_on_blockchain_success(outcome))]
    /\ UNCHANGED <<requests, counted, now, nextUuid, dpps, store, pins>>

\* the row create_complete_dpp adds to the session
NewDpp(l) ==
    [id |-> l.dpp_id, product_id |-> l.product_id, ipfs_cid |-> l.ipfs_cid,
     blockchain_hash |-> l.blockchain_hash, json_ld_data |-> l.json_ld_data]

\* db.session.add; db.session.commit, or the rollback of the except branch
create_complete_dpp_commit(w) ==
    /\ pc[w] = "c_commit"
    /\ \E dbok \in BOOLEAN :
        IF CommitError(dbok, NewDpp(loc[w]), dpps) = "none"
        THEN /\ dpps' = dpps \cup {NewDpp(loc[w])}
             /\ pc' = [pc EXCEPT ![w] = "c_pin"]
             /\ UNCHANGED loc
        ELSE /\ pc' = [pc EXCEPT ![w] = "c_done"]
             /\ loc' = [loc EXCEPT ![w].error = CommitError(dbok, NewDpp(loc[w]), dpps)]
             /\ dpps' = rollback(dpps, NewDpp(loc[w]))
    /\ UNCHANGED <<requests, counted, now, nextUuid, store, pins, ledger>>

\* the success flag made to depend on the pin
ReturnAfterPin_Strict(pin_success) == pin_success

\* the success flag create_complete_dpp and update_dpp_metadata return after
\* pin_content, whose result they do not read
ReturnAfterPin(pin_success) == TRUE

\* pin_content, whose result is ignored, and the success return
create_complete_dpp_pin(w) ==
    /\ pc[w] = "c_pin"
    /\ \E up \in StoreOutcomes :
        /\ pins' = IF pin_content_success(up) THEN pins \cup {loc[w].ipfs_cid} ELSE pins
        /\ loc' = [loc EXCEPT ![w].success = ReturnAfterPin(pin_content_success(up))]
    /\ pc' = [pc EXCEPT ![w] = "c_done"]
    /\ UNCHANGED <<requests, counted, now, nextUuid, dpps, store, ledger>>

\* ------------------------------------------ DPPService.verify_dpp_integrity
\* the row is read; a client that has just been answered by
\* create_complete_dpp may ask for the passport it was given
verify_dpp_integrity_get(w, dpp_id) ==
    /\ \/ pc[w] = "idle"
       \/ pc[w] = "c_done" /\ loc[w].success /\ dpp_id = loc[w].dpp_id
    /\ Accept(w)
    /\ IF DppById(dpp_id) = {}
       THEN /\ pc' = [pc EXCEPT ![w] = "v_done"]
            /\ loc' = [loc EXCEPT ![w] = [IdleLoc EXCEPT !.dpp_id = dpp_id,
                                                         !.error = "DPP not found"]]
       ELSE \E dpp \in DppById(dpp_id) :
            /\ pc' = [pc EXCEPT ![w] = "v_ipfs"]
            /\ loc' = [loc EXCEPT ![w].dpp = dpp, ![w].success = FALSE]
    /\ UNCHANGED <<now, nextUuid, dpps, store, pins, ledger>>

\* the result returned as soon as the retrieval failed
AfterRetrievalFailure_Return == "v_done"

\* where verify_dpp_integrity goes when the retrieval failed: on to the
\* ledger lookup, which is outside the if on ipfs_success
AfterRetrievalFailure == "v_blockchain"

\* retrieve_dpp_metadata(dpp.ipfs_cid)
verify_dpp_integrity_ipfs(w) ==
    /\ pc[w] = "v_ipfs"
    /\ \E up \in StoreOutcomes :
        IF retrieve_dpp_metadata_success(loc[w].dpp.ipfs_cid, up)
        THEN /\ pc' = [pc EXCEPT ![w] = "v_content"]
             /\ loc' = [loc EXCEPT ![w].ipfs_check = TRUE]
        ELSE /\ pc' = [pc EXCEPT ![w] = AfterRetrievalFailure]
             /\ UNCHANGED loc
    /\ UNCHANGED <<requests, counted, now, nextUuid, dpps, store, pins, ledger>>

\* verify_content_integrity(dpp.ipfs_cid, dpp.json_ld_data), which retrieves
\* the content again
verify_dpp_integrity_content(w) ==
    /\ pc[w] = "v_content"
    /\ \E up \in StoreOutcomes :
        LET res == verify_content_integrity(loc[w].dpp.ipfs_cid, loc[w].dpp.json_ld_data, up)
        IN loc' = [loc EXCEPT ![w].integrity_success = res[1],
                              ![w].retrieved_data = res[3],
                              ![w].data_integrity = res[1] /\ res[2]]
    /\ pc' = [pc EXCEPT ![w] = "v_blockchain"]
    /\ UNCHANGED <<requests, counted, now, nextUuid, dpps, store, pins, ledger>>

\* blockchain_check taken from the success of the call alone
BlockchainCheck_CallOnly(blockchain_success, blockchain_data) ==
    blockchain_success

\* blockchain_check as verify_dpp_integrity derives it from verify_dpp_by_cid
BlockchainCheck(blockchain_success, blockchain_data) ==
    blockchain_success /\ blockchain_data.is_valid

\* overall_valid taken from the ledger signal alone
OverallValid_LedgerOnly(ipfs_check, data_integrity, blockchain_check) ==
    blockchain_check

\* overall_valid folded without the ledger signal
OverallValid_NoLedger(ipfs_check, data_integrity, blockchain_check) ==
    ipfs_check /\ data_integrity

\* overall_valid as verify_dpp_integrity folds it (database_check is True)
OverallValid(ipfs_check, data_integrity, blockchain_check) ==
    ipfs_check /\ data_integrity /\ blockchain_check

\* verify_dpp_by_cid(dpp.ipfs_cid), then the overall verdict
verify_dpp_integrity_blockchain(w) ==
    /\ pc[w] = "v_blockchain"
    /\ \E up \in QueryOutcomes :
       \E blockchain_data \in verifyByCid(loc[w].dpp.ipfs_cid) :
        LET blockchain_success == verify_dpp_by_cid_success(up)
            check == BlockchainCheck(blockchain_success, blockchain_data)
        IN loc' = [loc EXCEPT
                    ![w].query_success = blockchain_success,
                    ![w].query_data = IF blockchain_success THEN blockchain_data ELSE NotFound,
                    ![w].blockchain_check = check,
                    ![w].overall_valid =
                        OverallValid(loc[w].ipfs_check, loc[w].data_integrity, check),
                    ![w].success = TRUE]
    /\ pc' = [pc EXCEPT ![w] = "v_done"]
    /\ UNCHANGED <<requests, counted, now, nextUuid, dpps, store, pins, ledger>>

\* ------------------------------------------- DPPService.update_dpp_metadata
\* the row is read and the patch merged into its document
update_dpp_metadata_get(w, dpp_id, updated_data) ==
    /\ pc[w] = "idle"
    /\ Accept(w)
    /\ IF DppById(dpp_id) = {}
       THEN /\ pc' = [pc EXCEPT ![w] = "u_done"]
            /\ loc' = [loc EXCEPT ![w] = [IdleLoc EXCEPT !.dpp_id = dpp_id,
                                                         !.error = "DPP not found"]]
       ELSE \E dpp \in DppById(dpp_id) :
            /\ pc' = [pc EXCEPT ![w] = "u_upload"]
            /\ loc' = [loc EXCEPT ![w] =
                        [IdleLoc EXCEPT !.dpp_id = dpp_id,
                                        !.dpp = dpp,
                                        !.json_ld_data =
                                            Merge(Merge(dpp.json_ld_data, updated_data),
                                                  "dpp:updatedAt" :> now)]]
    /\ UNCHANGED <<now, nextUuid, dpps, store, pins, ledger>>

\* the row rewritten although the upload failed
AfterUpdateUploadFailure_Continue == "u_commit"

\* where update_dpp_metadata goes when the upload failed: it returns
AfterUpdateUploadFailure == "u_done"

\* upload of the new version, then its data hash
update_dpp_metadata_upload(w) ==
    /\ pc[w] = "u_upload"
    /\ \E up \in StoreOutcomes :
        IF ~upload_dpp_metadata_success(up)
        THEN /\ pc' = [pc EXCEPT ![w] = AfterUpdateUploadFailure]
             /\ loc' = [loc EXCEPT ![w].error = "IPFS upload failed"]
             /\ UNCHANGED store
        ELSE LET metadata == Stamp(loc[w].json_ld_data, now)
             IN /\ store' = add_json(metadata)
                /\ pc' = [pc EXCEPT ![w] = "u_commit"]
                /\ loc' = [loc EXCEPT
                            ![w].ipfs_success = TRUE,
                            ![w].ipfs_cid = CidOf(metadata),
                            ![w].json_ld_data = DocAfterUpload(loc[w].json_ld_data, metadata),
                            ![w].data_hash =
                                generate_data_hash(DocAfterUpload(loc[w].json_ld_data, metadata))]
    /\ UNCHANGED <<requests, counted, now, nextUuid, dpps, pins, ledger>>

\* the row rewritten with the new content id and the old document
UpdatedDpp_CidOnly(row, l) ==
    [row EXCEPT !.ipfs_cid = l.ipfs_cid]

\* the row rewritten with its product reference cleared as well
UpdatedDpp_Reassign(row, l) ==
    [row EXCEPT !.ipfs_cid = l.ipfs_cid, !.json_ld_data = l.json_ld_data,
                !.product_id = 0]

\* the row as update_dpp_metadata rewrites it
UpdatedDpp(row, l) ==
    [row EXCEPT !.ipfs_cid = l.ipfs_cid, !.json_ld_data = l.json_ld_data]

\* db.session.commit of the changed row, or the rollback of the except branch
update_dpp_metadata_commit(w) ==
    /\ pc[w] = "u_commit"
    /\ \E dbok \in BOOLEAN, row \in DppById(loc[w].dpp_id) :
        IF CommitError(dbok, UpdatedDpp(row, loc[w]), dpps \ {row}) = "none"
        THEN /\ dpps' = (dpps \ {row}) \cup {UpdatedDpp(row, loc[w])}
             /\ pc' = [pc EXCEPT ![w] = "u_pin"]
             /\ UNCHANGED loc
        ELSE /\ pc' = [pc EXCEPT ![w] = "u_done"]
             /\ loc' = [loc EXCEPT ![w].error =
                            CommitError(dbok, UpdatedDpp(row, loc[w]), dpps \ {row})]
             /\ dpps' = rollback(dpps, UpdatedDpp(row, loc[w]))
    /\ UNCHANGED <<requests, counted, now, nextUuid, store, pins, ledger>>

\* pin_content of the new cid, whose result is ignored, and the success return
update_dpp_metadata_pin(w) ==
    /\ pc[w] = "u_pin"
    /\ \E up \in StoreOutcomes :
        /\ pins' = IF pin_content_success(up) THEN pins \cup {loc[w].ipfs_cid} ELSE pins
        /\ loc' = [loc EXCEPT ![w].success = ReturnAfterPin(pin_content_success(up))]
    /\ pc' = [pc EXCEPT ![w] = "u_done"]
    /\ UNCHANGED <<requests, counted, now, nextUuid, dpps, store, ledger>>

\* ------------------------------------------- routes/dpps.py: POST /dpps
\* generate_json_ld_data of the route
generate_json_ld_data(product, dpp_id, t) ==
    ("@id" :> dpp_id) @@ ("dpp:productName" :> product) @@ ("dpp:issuedAt" :> t)

\* f"Qm{uuid.uuid4().hex[:40]}": a content id made of a random number
PlaceholderCid(n) == <<"Qm", "uuid" :> n>>

\* f"0x{uuid.uuid4().hex}"
PlaceholderHash(n) == <<"0x", <<"uuid", n>>>>

\* product lookup, existing passport check, document and placeholders
create_dpp_check(w, product_id) ==
    /\ pc[w] = "idle"
    /\ Accept(w)
    /\ IF product_id \notin Products
       THEN /\ pc' = [pc EXCEPT ![w] = "r_done"]
            /\ loc' = [loc EXCEPT ![w] = [IdleLoc EXCEPT !.product_id = product_id,
                                                         !.error = "Product not found"]]
            /\ UNCHANGED nextUuid
       ELSE IF ExistingDpp(product_id) # {}
       THEN /\ pc' = [pc EXCEPT ![w] = "r_done"]
            /\ loc' = [loc EXCEPT ![w] = [IdleLoc EXCEPT !.product_id = product_id,
                                                         !.error = "DPP already exists for this product"]]
            /\ UNCHANGED nextUuid
       ELSE /\ nextUuid' = nextUuid + 1
            /\ pc' = [pc EXCEPT ![w] = "r_commit"]
            /\ loc' = [loc EXCEPT ![w] =
                        [IdleLoc EXCEPT !.product_id = product_id,
                                        !.dpp_id = nextUuid,
                                        !.json_ld_data =
                                            generate_json_ld_data(product_id, nextUuid, now),
                                        !.ipfs_cid = PlaceholderCid(nextUuid),
                                        !.blockchain_hash = PlaceholderHash(nextUuid)]]
    /\ UNCHANGED <<now, dpps, store, pins, ledger>>

\* db.session.add; db.session.commit, or the rollback of the except branch
create_dpp_commit(w) ==
    /\ pc[w] = "r_commit"
    /\ \E dbok \in BOOLEAN :
        IF CommitError(dbok, NewDpp(loc[w]), dpps) = "none"
        THEN /\ dpps' = dpps \cup {NewDpp(loc[w])}
             /\ loc' = [loc EXCEPT ![w].success = TRUE]
        ELSE /\ loc' = [loc EXCEPT ![w].error = CommitError(dbok, NewDpp(loc[w]), dpps)]
             /\ dpps' = rollback(dpps, NewDpp(loc[w]))
    /\ pc' = [pc EXCEPT ![w] = "r_done"]
    /\ UNCHANGED <<requests, counted, now, nextUuid, store, pins, ledger>>

\* ------------------------------------------------------------- environment
\* the keys of a stored blob that can be altered behind the service's back:
\* one field of the document and one field stamped by the upload
TamperKeys == {"dpp:productName", "ipfs_version"}

\* the blob held under a cid is no longer the content the cid was minted for
Tampered(cid) == store[cid] # cid[2]

\* the blob the content store answers with for a cid is altered out of band
TamperBlob(cid, k) ==
    /\ cid \in DOMAIN store
    /\ Cardinality({c \in DOMAIN store : Tampered(c)}) < MaxTampered
    /\ ~Tampered(cid)
    /\ k \in TamperKeys \cap DOMAIN store[cid]
    /\ store' = [store EXCEPT ![cid] = [@ EXCEPT ![k] = 77]]
    /\ UNCHANGED <<requests, counted, now, nextUuid, dpps, pins, ledger, pc, loc>>

\* a transaction whose receipt was not seen in time is mined later
LedgerConfirmLate(i) ==
    /\ i \in 1..Len(ledger)
    /\ ledger[i].status = "pending"
    /\ ledger' = [ledger EXCEPT ![i].status = "confirmed"]
    /\ UNCHANGED <<requests, counted, now, nextUuid, dpps, store, pins, pc, loc>>

\* the document another issuer registers
ForeignDoc == "@id" :> 0

\* registerDPP is a public function of the contract: another account
\* registers an entry under a cid the store holds
LedgerForeignRegister(cid) ==
    /\ cid \in DOMAIN store
    /\ Len(ledger) < MaxTx
    /\ ledger' = Append(ledger, [ipfs_cid |-> cid,
                                 data_hash |-> generate_data_hash(ForeignDoc),
                                 product_id |-> 0,
                                 status |-> "confirmed",
                                 issuer |-> "other"])
    /\ UNCHANGED <<requests, counted, now, nextUuid, dpps, store, pins, pc, loc>>

\* the response is sent and the worker takes the next request
Return(w) ==
    /\ pc[w] \in {"c_done", "v_done", "u_done", "r_done"}
    /\ pc' = [pc EXCEPT ![w] = "idle"]
    /\ loc' = [loc EXCEPT ![w] = IdleLoc]
    /\ UNCHANGED <<requests, counted, now, nextUuid, dpps, store, pins, ledger>>

\* datetime.utcnow() advances
Tick ==
    /\ now < MaxTime
    /\ now' = now + 1
    /\ UNCHANGED <<requests, counted, nextUuid, dpps, store, pins, ledger, pc, loc>>

Next ==
    \/ \E w \in Workers, p \in ProductIds : create_complete_dpp_check(w, p)
    \/ \E w \in Workers : create_complete_dpp_upload(w)
    \/ \E w \in Workers : create_complete_dpp_register(w)
    \/ \E w \in Workers : create_complete_dpp_commit(w)
    \/ \E w \in Workers : create_complete_dpp_pin(w)
    \/ \E w \in Workers, id \in Uuids : verify_dpp_integrity_get(w, id)
    \/ \E w \in Workers : verify_dpp_integrity_ipfs(w)
    \/ \E w \in Workers : verify_dpp_integrity_content(w)
    \/ \E w \in Workers : verify_dpp_integrity_blockchain(w)
    \/ \E w \in Workers, id \in Uuids, patch \in Patches : update_dpp_metadata_get(w, id, patch)
    \/ \E w \in Workers : update_dpp_metadata_upload(w)
    \/ \E w \in Workers : update_dpp_metadata_commit(w)
    \/ \E w \in Workers : update_dpp_metadata_pin(w)
    \/ \E w \in Workers, p \in ProductIds : create_dpp_check(w, p)
    \/ \E w \in Workers : create_dpp_commit(w)
    \/ \E w \in Workers : Return(w)
    \/ \E cid \in DOMAIN store, k \in TamperKeys : TamperBlob(cid, k)
    \/ \E i \in 1..MaxTx : LedgerConfirmLate(i)
    \/ \E cid \in DOMAIN store : LedgerForeignRegister(cid)
    \/ Tick

Spec == Init /\ [][Next]_vars

\* one step of create_complete_dpp by worker w
create_complete_dpp_step(w) ==
    \/ create_complete_dpp_upload(w)
    \/ create_complete_dpp_register(w)
    \/ create_complete_dpp_commit(w)
    \/ create_complete_dpp_pin(w)

\* a request that is being served keeps being served: every call the handler
\* makes returns or raises (the wait for the receipt has a timeout)
FairSpec == Spec /\ \A w \in Workers : WF_vars(create_complete_dpp_step(w))

\* ------------------------------------------------------ verdict of a Verify
\* The four verdicts read off the flags of verification_result.
Verdict(l) ==
    IF l.overall_valid THEN "Valid"
    ELSE IF ~l.ipfs_check THEN "Unverifiable"
    ELSE IF ~l.data_integrity THEN "Invalid"
    ELSE "Degraded"

\* worker w has finished a Verify of an existing record
Verified(w) == pc[w] = "v_done" /\ loc[w].success

\* the fields the upload stamps into the stored copy
VolatileKeys == {"ipfs_upload_timestamp", "ipfs_version"}

\* documents a and b differ in a field that is not volatile
NonVolatileDiff(a, b) ==
    \E k \in (DOMAIN a \cup DOMAIN b) \ VolatileKeys :
        \/ k \notin DOMAIN a
        \/ k \notin DOMAIN b
        \/ a[k] # b[k]

\* the content a cid was minted for
MintedContent(cid) == cid[2]

\* ------------------------------------------------------------------ claims

\* C1: for every existing record, Verify returns Valid if and only if, in
\* that call, the content retrieval succeeded, the content retrieved for the
\* integrity check matches the recorded document, and the ledger lookup by
\* content id succeeded and confirmed the entry.
C1_ValidIffAllSignals ==
    \A w \in Workers :
        Verified(w) =>
            ( Verdict(loc[w]) = "Valid"
              <=> /\ loc[w].ipfs_check
                  /\ loc[w].integrity_success
                  /\ ~NonVolatileDiff(loc[w].retrieved_data, loc[w].dpp.json_ld_data)
                  /\ loc[w].query_success
                  /\ loc[w].query_data.is_valid )

\* a Verify that ended Valid
C1_Witness ==
    \E w \in Workers : Verified(w) /\ Verdict(loc[w]) = "Valid"

\* C2: when the blob retrieved under the record's content id has been
\* altered out of band in a non-volatile field (it differs there from the
\* content the cid was minted for), a Verify whose retrieval succeeds ends
\* Invalid, whatever the ledger reports.
C2_TamperDetected ==
    \A w \in Workers :
        ( /\ Verified(w)
          /\ loc[w].ipfs_check
          /\ loc[w].integrity_success
          /\ NonVolatileDiff(loc[w].retrieved_data, MintedContent(loc[w].dpp.ipfs_cid)) )
        => Verdict(loc[w]) = "Invalid"

\* a Verify that read an altered blob while the ledger confirmed the entry
C2_Witness ==
    \E w \in Workers :
        /\ Verified(w)
        /\ loc[w].ipfs_check
        /\ loc[w].integrity_success
        /\ NonVolatileDiff(loc[w].retrieved_data, MintedContent(loc[w].dpp.ipfs_cid))
        /\ loc[w].blockchain_check

\* C3: Verify never ends Valid when the ledger entry found for the record's
\* content id carries a data hash other than the data hash of the record's
\* document.
C3_LedgerHashCompared ==
    \A w \in Workers :
        ( /\ Verified(w)
          /\ loc[w].query_success
          /\ loc[w].query_data.is_valid
          /\ loc[w].query_data.data_hash # generate_data_hash(loc[w].dpp.json_ld_data) )
        => Verdict(loc[w]) # "Valid"

\* worker w is verifying, or has verified, the passport its own Create has
\* just returned, and that record still holds the content id Create gave it
VerifiesOwnCreate(w) ==
    /\ loc[w].ipfs_success
    /\ loc[w].dpp.id = loc[w].dpp_id
    /\ loc[w].dpp.ipfs_cid = loc[w].ipfs_cid

\* the store answered both retrievals of the Verify of worker w
StoreHealthy(w) == loc[w].ipfs_check /\ loc[w].integrity_success

\* the ledger holds no confirmed entry for the cid
NoConfirmedEntry(cid) ==
    \A i \in 1..Len(ledger) :
        ledger[i].ipfs_cid = cid => ledger[i].status # "confirmed"

\* C4: when Create ran with the upload succeeding and the registration
\* confirmed, a Verify of the returned passport issued right afterwards, with
\* the store and the ledger answering and nothing tampered, ends Valid.
C4_CreateThenVerifyValid ==
    \A w \in Workers :
        ( /\ Verified(w)
          /\ VerifiesOwnCreate(w)
          /\ loc[w].blockchain_success
          /\ loc[w].tx_status = "confirmed"
          /\ StoreHealthy(w)
          /\ loc[w].query_success
          /\ ~Tampered(loc[w].ipfs_cid) )
        => Verdict(loc[w]) = "Valid"

\* such a Verify has ended
C4_Witness ==
    \E w \in Workers :
        /\ Verified(w)
        /\ VerifiesOwnCreate(w)
        /\ loc[w].blockchain_success
        /\ loc[w].tx_status = "confirmed"
        /\ StoreHealthy(w)
        /\ loc[w].query_success
        /\ ~Tampered(loc[w].ipfs_cid)

\* C5: when during Create the upload succeeded and the wait for the receipt
\* timed out, Create still returns success with the record persisted, and a
\* Verify of it issued right afterwards (store answering, nothing tampered,
\* the transaction not yet mined) ends Degraded.
C5_TimeoutThenVerifyDegraded ==
    \A w \in Workers :
        /\ ( /\ pc[w] = "c_done"
              /\ loc[w].blockchain_error = "timeout"
              /\ loc[w].error = "none" )
           => loc[w].success /\ DppById(loc[w].dpp_id) # {}
        /\ ( /\ Verified(w)
              /\ VerifiesOwnCreate(w)
              /\ loc[w].blockchain_error = "timeout"
              /\ StoreHealthy(w)
              /\ ~Tampered(loc[w].ipfs_cid)
              /\ NoConfirmedEntry(loc[w].ipfs_cid) )
           => Verdict(loc[w]) = "Degraded"

\* such a Verify has ended, the ledger having answered its lookup
C5_Witness ==
    \E w \in Workers :
        /\ Verified(w)
        /\ VerifiesOwnCreate(w)
        /\ loc[w].blockchain_error = "timeout"
        /\ StoreHealthy(w)
        /\ loc[w].query_success
        /\ ~Tampered(loc[w].ipfs_cid)
        /\ NoConfirmedEntry(loc[w].ipfs_cid)

\* worker w has finished a Create that got past the precondition checks
Created(w) == pc[w] = "c_done" /\ loc[w].dpp_id # 0

\* the ledger holds a transaction registering the document of worker w
RegisteredBy(w) ==
    \E i \in 1..Len(ledger) :
        ledger[i].data_hash = generate_data_hash(loc[w].json_ld_data)

\* C6: when the upload fails during Create, Create returns the storage
\* failure, no record of that invocation is persisted and no ledger
\* registration is submitted by it.
C6_UploadFailureAborts ==
    \A w \in Workers :
        (Created(w) /\ ~loc[w].ipfs_success)
        => /\ ~loc[w].success
           /\ loc[w].error = "IPFS upload failed"
           /\ DppById(loc[w].dpp_id) = {}
           /\ ~RegisteredBy(w)

\* a Create has ended on a failed upload
C6_Witness ==
    \E w \in Workers : Created(w) /\ ~loc[w].ipfs_success

\* C7: when the upload succeeded and the registration failed, for whatever
\* reason, Create ends in failure only if the write of the record raised;
\* otherwise it returns success with the record persisted.  A rejected
\* write is a conflict with another record of the same product.
C7_LedgerFailureDegrades ==
    \A w \in Workers :
        (Created(w) /\ loc[w].ipfs_success /\ loc[w].blockchain_error # "none")
        => /\ loc[w].error \in {"none", "OperationalError", "IntegrityError"}
           /\ loc[w].error = "none" =>
                /\ loc[w].success
                /\ \E r \in DppById(loc[w].dpp_id) :
                        r.blockchain_hash = loc[w].blockchain_hash
           /\ loc[w].error = "IntegrityError" =>
                \E r \in dpps : r.product_id = loc[w].product_id /\ r.id # loc[w].dpp_id

\* a Create has returned success although no signing account or contract
\* was available
C7_Witness ==
    \E w \in Workers :
        /\ Created(w)
        /\ loc[w].blockchain_error = "uninitialized"
        /\ loc[w].success

C9_OneRecordPerProduct ==
    \A r1, r2 \in dpps : r1.product_id = r2.product_id => r1 = r2

\* a second Create for a product was stopped by the database while the
\* first one's record is persisted
C9_Witness ==
    \E w \in Workers :
        /\ Created(w)
        /\ loc[w].error = "IntegrityError"
        /\ ExistingDpp(loc[w].product_id) # {}

\* C10: of two Create calls for one product id, when one ends Persisted the
\* other, unless the store or the database failed it, returns the
\* already-exists error.
C10_LoserGetsAlreadyExists ==
    \A w, v \in Workers :
        ( /\ w # v
          /\ pc[w] = "c_done" /\ pc[v] = "c_done"
          /\ loc[w].product_id = loc[v].product_id
          /\ loc[w].success
          /\ loc[v].error \notin {"IPFS upload failed", "OperationalError"} )
        => loc[v].error = "DPP already exists for this product"

\* worker w is inside a Create that has passed the precondition checks and
\* has not yet reached its return
PassedPrecondition(w) ==
    pc[w] \in {"c_upload", "c_register", "c_commit", "c_pin"}

\* the ledger holds a transaction the service sent for the document of w
SubmittedBy(w) ==
    \E i \in 1..Len(ledger) :
        /\ ledger[i].issuer = "self"
        /\ ledger[i].data_hash = generate_data_hash(loc[w].json_ld_data)

\* C11: Create for one product id is serialized: two concurrent Create
\* invocations for the same product id never both pass the
\* no-existing-record check, so never both upload and never both submit a
\* ledger registration.
C11_CreateSerialized ==
    \A w, v \in Workers :
        ( /\ w # v
          /\ PassedPrecondition(w) /\ PassedPrecondition(v)
          /\ loc[w].product_id = loc[v].product_id )
        => /\ ~(loc[w].ipfs_success /\ loc[v].ipfs_success)
           /\ ~(SubmittedBy(w) /\ SubmittedBy(v))

\* C12: the service never submits a registration for a content id the
\* ledger already holds: every transaction it sends carries a content id
\* that no earlier ledger entry carries.
C12_NoRegisterForHeldCid ==
    \A i, j \in 1..Len(ledger) :
        (j < i /\ ledger[i].issuer = "self")
        => ledger[j].ipfs_cid # ledger[i].ipfs_cid

\* worker w is inside Create, past the precondition checks, or at its return
InCreate(w) == (PassedPrecondition(w) \/ pc[w] = "c_done") /\ loc[w].dpp_id # 0

\* the upload of worker w has returned a content id the store holds
UploadReturned(w) == loc[w].ipfs_success /\ loc[w].ipfs_cid \in DOMAIN store

\* the registration call of worker w has returned, with success or failure
RegisterReturned(w) == loc[w].blockchain_success \/ loc[w].blockchain_error # "none"

\* the record of the invocation of worker w is persisted
Recorded(w) == DppById(loc[w].dpp_id) # {}

\* C13: within one Create invocation the precondition checks come first
\* (right after them nothing has been uploaded, registered, written or
\* pinned), a registration is submitted only once the upload has returned a
\* content id, the record is written only once the registration has
\* returned, and the content is pinned only once the record is persisted.
C13_OrderOfEffects ==
    \A w \in Workers :
        InCreate(w) =>
            /\ loc[w].product_id \in Products
            /\ pc[w] = "c_upload" =>
                    ~UploadReturned(w) /\ ~SubmittedBy(w) /\ ~Recorded(w)
            /\ SubmittedBy(w) => UploadReturned(w)
            /\ RegisterReturned(w) => UploadReturned(w)
            /\ pc[w] \in {"c_commit", "c_pin"} => RegisterReturned(w)
            /\ Recorded(w) => RegisterReturned(w) /\ pc[w] \in {"c_pin", "c_done"}
            /\ loc[w].ipfs_cid \in pins => Recorded(w) /\ pc[w] = "c_done"

\* a Create has gone through upload, registration, record and pin
C13_Witness ==
    \E w \in Workers :
        /\ InCreate(w)
        /\ pc[w] = "c_done"
        /\ SubmittedBy(w)
        /\ Recorded(w)
        /\ loc[w].ipfs_cid \in pins

\* worker w has finished a Republish that returned success
Republished(w) == pc[w] = "u_done" /\ loc[w].success

\* C14: a successful Republish has submitted a ledger registration for the
\* new content id and the new data hash, and the ledger reference of the
\* record is no longer the one of the previous version.
C14_RepublishRegisters ==
    \A w \in Workers :
        Republished(w) =>
            /\ \E i \in 1..Len(ledger) :
                  /\ ledger[i].issuer = "self"
                  /\ ledger[i].ipfs_cid = loc[w].ipfs_cid
                  /\ ledger[i].data_hash = loc[w].data_hash
            /\ \A r \in DppById(loc[w].dpp_id) :
                  r.blockchain_hash # loc[w].dpp.blockchain_hash

\* C15: a Create whose product id references no product, or whose product
\* already has a record, returns the error (Product not found, already
\* exists) in its first step, and that step uploads nothing, submits no
\* registration, pins nothing and writes or changes no record; only a Create
\* for an existing product without record goes on to the upload.
C15_PreconditionFailureNoEffect ==
    [][ \A w \in Workers :
          (pc[w] = "idle" /\ pc'[w] \in {"c_upload", "c_done"}) =>
             LET p == loc'[w].product_id
             IN IF p \in Products /\ {r \in dpps : r.product_id = p} = {}
                THEN pc'[w] = "c_upload"
                ELSE /\ pc'[w] = "c_done"
                     /\ ~loc'[w].success
                     /\ loc'[w].error = IF p \notin Products
                                        THEN "Product not found"
                                        ELSE "DPP already exists for this product"
                     /\ store' = store
                     /\ ledger' = ledger
                     /\ dpps' = dpps
                     /\ pins' = pins ]_vars

\* a Create has been refused because its product already has a record
C15_Witness ==
    \E w \in Workers :
        /\ pc[w] = "c_done"
        /\ loc[w].error = "DPP already exists for this product"
        /\ ExistingDpp(loc[w].product_id) # {}

\* worker w has finished a Verify of an existing record whose content
\* retrieval failed
RetrievalFailed(w) ==
    pc[w] = "v_done" /\ loc[w].dpp # NoDpp /\ ~loc[w].ipfs_check

\* C16: when the content retrieval fails during Verify of an existing
\* record, Verify still returns a verdict, and the verdict is Unverifiable
\* (never Valid, Degraded or Invalid), whatever the ledger returns.
C16_RetrievalFailureUnverifiable ==
    \A w \in Workers :
        RetrievalFailed(w) =>
            /\ loc[w].success
            /\ loc[w].error = "none"
            /\ ~loc[w].overall_valid
            /\ Verdict(loc[w]) = "Unverifiable"

\* a Verify whose retrieval failed has ended while the ledger confirmed the
\* entry
C16_Witness ==
    \E w \in Workers : RetrievalFailed(w) /\ loc[w].blockchain_check

\* worker w is at the return of a Create or a Republish that got past the
\* write of the record, so that its pin has been attempted
PinAttempted(w) ==
    /\ pc[w] \in {"c_done", "u_done"}
    /\ loc[w].ipfs_success
    /\ loc[w].error = "none"

\* C17: whatever the outcome of the pin, a Create or a Republish that
\* reached it returns success and its record stays persisted.
C17_PinBestEffort ==
    \A w \in Workers :
        PinAttempted(w) =>
            /\ loc[w].success
            /\ DppById(loc[w].dpp_id) # {}

\* a Create and a Republish have returned success although their pin failed
C17_Witness ==
    /\ \E w \in Workers :
          pc[w] = "c_done" /\ PinAttempted(w) /\ loc[w].ipfs_cid \notin pins
    /\ \E w \in Workers :
          pc[w] = "u_done" /\ PinAttempted(w) /\ loc[w].ipfs_cid \notin pins

\* C18: two documents that differ only in the volatile fields have the same
\* data hash; taken here over the documents the service handles, the
\* document of a record and the stamped copy the store holds of it.
C18_HashIgnoresVolatile ==
    \A r \in dpps, cid \in DOMAIN store :
        ~NonVolatileDiff(store[cid], r.json_ld_data)
        => generate_data_hash(store[cid]) = generate_data_hash(r.json_ld_data)

\* worker w is inside Create, or at its return, with its upload done
UploadedInCreate(w) == InCreate(w) /\ loc[w].ipfs_success

\* C19: after the upload of a Create, the caller's document is still the
\* generated one, without the fields the store stamps into its own copy; the
\* data hash is the hash of that document, and the record persisted by the
\* invocation holds that document, so neither depends on the upload
\* timestamp.
C19_HashOfSubmittedDocument ==
    \A w \in Workers :
        UploadedInCreate(w) =>
            /\ \E t \in 0..MaxTime :
                  loc[w].json_ld_data =
                      generate_json_ld_metadata(loc[w].product_id, loc[w].dpp_id, t)
            /\ DOMAIN loc[w].json_ld_data \cap VolatileKeys = {}
            /\ loc[w].data_hash = <<"keccak", loc[w].json_ld_data>>
            /\ "ipfs_upload_timestamp" \in DOMAIN store[loc[w].ipfs_cid]
            /\ \A r \in DppById(loc[w].dpp_id) :
                  r.ipfs_cid = loc[w].ipfs_cid => r.json_ld_data = loc[w].json_ld_data

\* a Create has persisted its record after an upload stamped at a later
\* time than the one the document was generated at
C19_Witness ==
    \E w \in Workers :
        /\ UploadedInCreate(w)
        /\ loc[w].success
        /\ \E r \in DppById(loc[w].dpp_id) : r.ipfs_cid = loc[w].ipfs_cid
        /\ store[loc[w].ipfs_cid]["ipfs_upload_timestamp"]
              # loc[w].json_ld_data["dpp:issuedAt"]

\* the terminal state of the Create worker w has finished
Persisted(w) ==
    /\ loc[w].success
    /\ loc[w].error = "none"
    /\ \E r \in DppById(loc[w].dpp_id) : r.product_id = loc[w].product_id

Failed(w) ==
    /\ ~loc[w].success
    /\ loc[w].error # "none"
    /\ DppById(loc[w].dpp_id) = {}

\* C20: every Create invocation ends, and it ends in exactly one of
\* Persisted (success returned, record persisted) and Failed (failure
\* returned, no record of that invocation exists).
C20_PersistedOrFailed ==
    /\ [](\A w \in Workers :
            pc[w] = "c_done" => (Persisted(w) /\ ~Failed(w)) \/ (Failed(w) /\ ~Persisted(w)))
    /\ \A w \in Workers : PassedPrecondition(w) ~> pc[w] = "c_done"

\* a Create has ended in failure on the write of its record, after its
\* upload and its registration
C20_Witness ==
    \E w \in Workers :
        /\ pc[w] = "c_done"
        /\ Failed(w)
        /\ loc[w].ipfs_success
        /\ loc[w].blockchain_success

\* worker w takes a step of a Republish
RepublishStep(w) ==
    /\ pc[w] \in {"u_upload", "u_commit", "u_pin"}
    /\ pc'[w] # pc[w]

SentReverted(w) ==
    \E i \in 1..Len(ledger) :
        /\ ledger[i].issuer = "self"
        /\ ledger[i].ipfs_cid = loc[w].ipfs_cid
        /\ ledger[i].status = "reverted"

\* C22: when the transaction a Create submitted was included and reverted,
\* the registration returns a failure, and the record of that Create does not
\* carry the hash of the reverted transaction as its ledger reference.
C22_RevertedIsFailure ==
    \A w \in Workers :
        (InCreate(w) /\ RegisterReturned(w) /\ SentReverted(w))
        => /\ ~loc[w].blockchain_success
           /\ \A r \in DppById(loc[w].dpp_id), i \in 1..Len(ledger) :
                 (r.blockchain_hash = TxHash(i)) => ledger[i].status # "reverted"

\* C23: when a Create returns failure, the ledger holds no registration
\* submitted by that invocation.
C23_NoOrphanedLedgerEntry ==
    \A w \in Workers :
        (pc[w] = "c_done" /\ InCreate(w) /\ ~loc[w].success)
        => ~SubmittedBy(w)

\* the registrations the service has submitted for a product
RegistrationsFor(product_id) ==
    {i \in 1..Len(ledger) :
        ledger[i].issuer = "self" /\ ledger[i].product_id = product_id}

\* C24: across all Create attempts for one product id, retries after a
\* failed or timed-out attempt included, the service submits at most one
\* ledger registration for that product.
C24_RetryIdempotentOnLedger ==
    \A p \in Products : Cardinality(RegistrationsFor(p)) <= 1

\* C25: a Verify ends with the content check passed and the integrity check
\* failed (Invalid) only if the blob the store holds under the content id of
\* the record it read differs from that record's document in a non-volatile
\* field.
C25_InvalidOnlyIfTampered ==
    \A w \in Workers :
        (Verified(w) /\ loc[w].ipfs_check /\ ~loc[w].data_integrity)
        => NonVolatileDiff(store[loc[w].dpp.ipfs_cid], loc[w].dpp.json_ld_data)

\* worker w takes a step of a Verify
VerifyStep(w) ==
    /\ pc'[w] # pc[w]
    /\ pc'[w] \in {"v_ipfs", "v_content", "v_blockchain", "v_done"}

\* the ledger holds a confirmed entry for the cid
ConfirmedEntry(cid) ==
    \E i \in 1..Len(ledger) :
        ledger[i].ipfs_cid = cid /\ ledger[i].status = "confirmed"

\* C26: a Verify changes neither the records nor the content store nor the
\* ledger; it starts with every check unset, whatever was verified before,
\* queries the store and then the ledger (the ledger also when the retrieval
\* failed), and each check it sets is borne out by the store or the ledger as
\* they are at that step.
C26_VerifyStateless ==
    [][ \A w \in Workers :
          VerifyStep(w) =>
             LET cid == loc'[w].dpp.ipfs_cid
                 doc == loc'[w].dpp.json_ld_data
             IN /\ dpps' = dpps /\ store' = store /\ ledger' = ledger /\ pins' = pins
                /\ pc'[w] = "v_ipfs" =>
                      /\ pc[w] \in {"idle", "c_done"}
                      /\ loc'[w].dpp \in dpps
                      /\ ~loc'[w].ipfs_check /\ ~loc'[w].data_integrity
                      /\ ~loc'[w].blockchain_check /\ ~loc'[w].overall_valid
                /\ pc[w] = "v_ipfs" =>
                      /\ pc'[w] = IF loc'[w].ipfs_check THEN "v_content" ELSE "v_blockchain"
                      /\ loc'[w].ipfs_check => cid \in DOMAIN store
                /\ pc[w] = "v_content" =>
                      /\ pc'[w] = "v_blockchain"
                      /\ loc'[w].data_integrity =>
                            /\ cid \in DOMAIN store
                            /\ ~NonVolatileDiff(store[cid], doc)
                /\ (pc'[w] = "v_done" /\ loc'[w].dpp # NoDpp) =>
                      /\ pc[w] = "v_blockchain"
                      /\ loc'[w].blockchain_check => ConfirmedEntry(cid)
                      /\ loc'[w].overall_valid <=>
                            /\ loc[w].ipfs_check
                            /\ loc[w].data_integrity
                            /\ loc'[w].blockchain_check ]_vars

\* a Verify whose retrieval failed has had its ledger lookup answered
C26_Witness ==
    \E w \in Workers :
        /\ RetrievalFailed(w)
        /\ loc[w].query_success
        /\ ~loc[w].query_data.is_valid

\* C27: the step of a Republish at which the upload fails ends the
\* Republish with the storage error, and leaves every record, the store, the
\* pins and the ledger as they were; a Republish goes on to the write of the
\* record only with a content id returned by the upload.
C27_RepublishUploadFailure ==
    [][ \A w \in Workers :
          (pc[w] = "u_upload" /\ pc'[w] # pc[w]) =>
             IF loc'[w].ipfs_success
             THEN pc'[w] = "u_commit" /\ loc'[w].ipfs_cid \in DOMAIN store'
             ELSE /\ pc'[w] = "u_done"
                  /\ ~loc'[w].success
                  /\ loc'[w].error = "IPFS upload failed"
                  /\ dpps' = dpps
                  /\ store' = store
                  /\ pins' = pins
                  /\ ledger' = ledger ]_vars

\* a Republish has ended on a failed upload, its record being as it was read
C27_Witness ==
    \E w \in Workers :
        /\ pc[w] = "u_done"
        /\ loc[w].error = "IPFS upload failed"
        /\ loc[w].dpp \in dpps

\* the content id of record r was returned by an upload of r's document: the
\* store holds under it the stamped copy of that document
MintedByUpload(r) ==
    /\ r.ipfs_cid \in DOMAIN store
    /\ \E t \in 0..MaxTime : r.ipfs_cid = CidOf(Stamp(r.json_ld_data, t))

\* C29: the content id of every persisted record was returned by a
\* successful upload of that record's document, whatever operation created
\* the record.
C29_CidMintedByUpload ==
    \A r \in dpps : MintedByUpload(r)

\* the content id is one of the placeholders of the POST /dpps route, which
\* is not an invocation of the coordinator
IsPlaceholderCid(cid) == \E n \in Uuids : cid = PlaceholderCid(n)

\* the blob held under the content id of record r is content-equivalent to
\* the document of r
BoundToContent(r) ==
    /\ r.ipfs_cid \in DOMAIN store
    /\ ~NonVolatileDiff(store[r.ipfs_cid], r.json_ld_data)

\* C28: for every persisted record whose content id the coordinator wrote
\* (by Create or Republish), the store holds a blob under that content id
\* and, unless the blob was altered out of band, the blob is
\* content-equivalent to the record's document; the content id and the
\* document of a record are replaced together: no step leaves the content
\* id of a record in place under a document that is not content-equivalent
\* to the one it had.
C28_RecordContentBinding ==
    /\ [](\A r \in dpps :
            ~IsPlaceholderCid(r.ipfs_cid) =>
                /\ r.ipfs_cid \in DOMAIN store
                /\ ~Tampered(r.ipfs_cid) => BoundToContent(r))
    /\ [][ \A r \in dpps, r2 \in dpps' :
             (r.id = r2.id /\ r.ipfs_cid = r2.ipfs_cid) =>
                ~NonVolatileDiff(r.json_ld_data, r2.json_ld_data) ]_vars

\* a record republished with a changed product name is bound to the blob
\* under its new content id
C28_Witness ==
    \E r \in dpps :
        /\ "dpp:updatedAt" \in DOMAIN r.json_ld_data
        /\ r.json_ld_data["dpp:productName"] = 55
        /\ ~Tampered(r.ipfs_cid)
        /\ BoundToContent(r)

\* C30: the count of accepted requests of a client persists from one
\* request to the next: at every request the limiter has counted all the
\* requests accepted from that client within the window (here all of them,
\* the window being longer than the time that passes), which is what makes
\* it refuse the request after the hundredth.
C30_RateCountPersists ==
    now < RateWindow => counted = requests
====
